---- MODULE Spec2Model ----
(***************************************************************************)
(* Simulation core of the cockpit simulator: the Spacecraft entity of      *)
(* src/src/simulator/spacecraft.py, the PhysicsEngine of                   *)
(* src/src/simulator/physics.py and the CelestialBody and SolarSystem of   *)
(* src/src/simulator/solar_system.py as state machines.                    *)
(*                                                                         *)
(* Python floats are modelled as exact rationals [n, d] in lowest terms    *)
(* with d > 0, so every arithmetic step of the code is computed without    *)
(* rounding.  Floats beyond the range of the integers at hand (the mass of *)
(* a celestial body, the gravitational constant and what is computed from  *)
(* them) are rationals with a power of ten and a power of the digits of G. *)
(***************************************************************************)
EXTENDS Integers, Sequences, FiniteSets, TLC

VARIABLES sc, last, called, steps, engine, system, hist, repos, mission

vars == <<sc, last, called, steps, engine, system, hist, repos, mission>>

(* ------------------------------ bounds --------------------------------- *)

\* Number of operations performed on the spacecraft in one run.
MaxSteps == 4

(* ------------------------ rational arithmetic -------------------------- *)

\* Arithmetic evaluates its arguments once each, before the operation:
\* the operations below bind them (x \in {a}) before they use them.

Abs(i) == IF i < 0 THEN -i ELSE i

RECURSIVE GCD(_, _)
GCD(a, b) == IF b = 0 THEN a ELSE CHOOSE r \in {GCD(x, y) : x \in {b}, y \in {a % b}} : TRUE

LCM(a, b) == (a \div GCD(a, b)) * b

Reduce(n, g) == [n |-> n[1] \div g, d |-> n[2] \div g]

\* The rational n/d (d > 0) in lowest terms.
R(n, d) == CHOOSE r \in {Reduce(x, y) : x \in {<<n, d>>}, y \in {GCD(Abs(n), d)}} : TRUE

RInt(i) == [n |-> i, d |-> 1]

R0 == RInt(0)

RNeg(a) == [n |-> -a.n, d |-> a.d]

Sum(a, b) ==
    LET l == LCM(a.d, b.d)
    IN  R(a.n * (l \div a.d) + b.n * (l \div b.d), l)

RAdd(a, b) == CHOOSE r \in {Sum(x, y) : x \in {a}, y \in {b}} : TRUE

RSub(a, b) == RAdd(a, RNeg(b))

Product(a, b) ==
    LET g1 == GCD(Abs(a.n), b.d)
        g2 == GCD(Abs(b.n), a.d)
    IN  R((a.n \div g1) * (b.n \div g2), (a.d \div g2) * (b.d \div g1))

RMul(a, b) == CHOOSE r \in {Product(x, y) : x \in {a}, y \in {b}} : TRUE

\* a / b for b # 0.
Quotient(a, b) ==
    IF b.n > 0 THEN RMul(a, [n |-> b.d, d |-> b.n])
               ELSE RMul(a, [n |-> -b.d, d |-> -b.n])

RDiv(a, b) == CHOOSE r \in {Quotient(x, y) : x \in {a}, y \in {b}} : TRUE

Less(a, b) ==
    LET l == LCM(a.d, b.d)
    IN  a.n * (l \div a.d) < b.n * (l \div b.d)

RLt(a, b) == CHOOSE r \in {Less(x, y) : x \in {a}, y \in {b}} : TRUE

RLe(a, b) == ~RLt(b, a)

\* Python's min(a, b): the first argument unless the second is smaller.
RMin(a, b) == IF RLt(b, a) THEN b ELSE a

\* Python's max(a, b): the first argument unless the second is larger.
RMax(a, b) == IF RLt(a, b) THEN b ELSE a

(* --------------------------- program constants ------------------------- *)

\* 9.81 in fuel_per_second.
StandardGravity == R(981, 100)

\* 0.75 kg/L in get_current_mass.
FuelDensity == R(3, 4)

\* 0.1 percentage points of oxygen per second.
OxygenRate == R(1, 10)

\* Multiplier applied to the consumption while boost is active.
BoostMultiplier == RInt(2)

ThrottleMin == R0

ThrottleMax == RInt(100)

NominalAbove == RInt(50)

WarningAbove == RInt(20)

(* ------------------------------ inputs --------------------------------- *)

\* delta_time arguments: negative, zero, one second, ten seconds, and long
\* enough to exhaust a full tank at full thrust.
DtSet == {RInt(-10), R0, RInt(1), RInt(10), RInt(300)}

\* set_throttle arguments: below range, idle, mid range, above range.
ThrottleArgs == {RInt(-10), R0, RInt(50), RInt(150)}

\* Fuel levels a spacecraft with a 1000 L tank is constructed with.
InitFuel == {R0, RInt(500), RInt(1000)}

\* thrust_level values a spacecraft is constructed with.
InitThrust == {R(-1, 2), R0}

\* Oxygen levels a spacecraft is constructed with.
InitOxygen == {RInt(100), RInt(51), RInt(21)}

Zero3 == <<R0, R0, R0>>

\* Spacecraft(...) with the propulsion figures of the scout used throughout
\* the tests, and the dataclass defaults for every field not drawn.
NewSpacecraft(capacity, fuel, thrust, oxygen) ==
    [ mass                |-> RInt(5000),
      dry_mass            |-> RInt(4000),
      max_fuel_capacity   |-> capacity,
      current_fuel        |-> fuel,
      max_thrust          |-> RInt(10000),
      specific_impulse    |-> RInt(300),
      cruise_speed        |-> RInt(1000),
      position            |-> Zero3,
      velocity            |-> Zero3,
      acceleration        |-> Zero3,
      thrust_level        |-> thrust,
      throttle            |-> R0,
      boost_active        |-> FALSE,
      shields_active      |-> FALSE,
      hull_integrity      |-> RInt(1),
      oxygen_level        |-> oxygen,
      cabin_pressure      |-> R(1013, 10),
      cabin_temp          |-> RInt(20),
      life_support_status |-> "nominal" ]

(* ----------------------------- operations ------------------------------ *)

\* get_current_mass with the stored mass field returned instead.
get_current_mass_stored(s) == s.mass

get_current_mass(s) == RAdd(s.dry_mass, RMul(s.current_fuel, FuelDensity))

\* get_fuel_percent without the test for a zero capacity: the division
\* raises ZeroDivisionError.
get_fuel_percent_unguarded(s) ==
    IF s.max_fuel_capacity = R0
    THEN [ret |-> "None", raised |-> "ZeroDivisionError"]
    ELSE [ret |-> RMul(RDiv(s.current_fuel, s.max_fuel_capacity), RInt(100)),
          raised |-> "none"]

\* get_fuel_percent(): the value returned and the exception raised.
get_fuel_percent(s) ==
    IF s.max_fuel_capacity = R0
    THEN [ret |-> R0, raised |-> "none"]
    ELSE [ret |-> RMul(RDiv(s.current_fuel, s.max_fuel_capacity), RInt(100)),
          raised |-> "none"]

\* fuel_per_second * delta_time, doubled under boost, before the cap.
fuel_demand(s, dt) ==
    LET fuel_per_second ==
            RDiv(RMul(s.thrust_level, s.max_thrust),
                 RMul(s.specific_impulse, StandardGravity))
        fuel_consumed == RMul(fuel_per_second, dt)
    IN  IF s.boost_active THEN RMul(fuel_consumed, BoostMultiplier)
                          ELSE fuel_consumed

\* consume_fuel without the cap at the available fuel.
consume_fuel_uncapped(s, dt) ==
    IF RLe(s.thrust_level, R0)
    THEN [ret |-> R0, craft |-> s]
    ELSE LET c == fuel_demand(s, dt)
         IN  [ret |-> c, craft |-> [s EXCEPT !.current_fuel = RSub(@, c)]]

\* consume_fuel that ignores the boost flag.
consume_fuel_noboost(s, dt) ==
    IF RLe(s.thrust_level, R0)
    THEN [ret |-> R0, craft |-> s]
    ELSE LET c == RMin(fuel_demand([s EXCEPT !.boost_active = FALSE], dt),
                       s.current_fuel)
         IN  [ret |-> c, craft |-> [s EXCEPT !.current_fuel = RSub(@, c)]]

\* consume_fuel that returns the requested amount, not the capped one.
consume_fuel_retdemand(s, dt) ==
    IF RLe(s.thrust_level, R0)
    THEN [ret |-> R0, craft |-> s]
    ELSE LET c == RMin(fuel_demand(s, dt), s.current_fuel)
         IN  [ret |-> fuel_demand(s, dt),
              craft |-> [s EXCEPT !.current_fuel = RSub(@, c)]]

\* consume_fuel without the early return on thrust_level <= 0.
consume_fuel_noguard(s, dt) ==
    LET c == RMin(fuel_demand(s, dt), s.current_fuel)
    IN  [ret |-> c, craft |-> [s EXCEPT !.current_fuel = RSub(@, c)]]

\* consume_fuel that burns nothing when the tank holds less than asked.
consume_fuel_refusing(s, dt) ==
    IF RLe(s.thrust_level, R0) \/ RLt(s.current_fuel, fuel_demand(s, dt))
    THEN [ret |-> R0, craft |-> s]
    ELSE LET c == fuel_demand(s, dt)
         IN  [ret |-> c, craft |-> [s EXCEPT !.current_fuel = RSub(@, c)]]

\* consume_fuel that also refreshes the stored total mass.
consume_fuel_updating_mass(s, dt) ==
    IF RLe(s.thrust_level, R0)
    THEN [ret |-> R0, craft |-> s]
    ELSE LET c == RMin(fuel_demand(s, dt), s.current_fuel)
         IN  [ret |-> c,
              craft |-> [s EXCEPT !.current_fuel = RSub(@, c),
                                  !.mass = RAdd(s.dry_mass,
                                                RMul(RSub(s.current_fuel, c),
                                                     FuelDensity))]]

\* consume_fuel(delta_time): the value returned and the spacecraft after.
consume_fuel(s, dt) ==
    IF RLe(s.thrust_level, R0)
    THEN [ret |-> R0, craft |-> s]
    ELSE LET c == RMin(fuel_demand(s, dt), s.current_fuel)
         IN  [ret |-> c, craft |-> [s EXCEPT !.current_fuel = RSub(@, c)]]

\* The status computed with inclusive thresholds.
status_of_inclusive(o) ==
    IF RLe(NominalAbove, o) THEN "nominal"
    ELSE IF RLe(WarningAbove, o) THEN "warning"
    ELSE "critical"

\* The if/elif/else ladder of update_life_support.
status_of(o) ==
    IF RLt(NominalAbove, o) THEN "nominal"
    ELSE IF RLt(WarningAbove, o) THEN "warning"
    ELSE "critical"

\* update_life_support with the consumption added.
update_life_support_replenish(s, dt) ==
    LET oxygen_consumption == RMul(OxygenRate, dt)
        o == RMax(R0, RAdd(s.oxygen_level, oxygen_consumption))
    IN  [s EXCEPT !.oxygen_level = o, !.life_support_status = status_of(o)]

update_life_support(s, dt) ==
    LET oxygen_consumption == RMul(OxygenRate, dt)
        o == RMax(R0, RSub(s.oxygen_level, oxygen_consumption))
    IN  [s EXCEPT !.oxygen_level = o, !.life_support_status = status_of(o)]

\* set_throttle without the clamp.
set_throttle_unclamped(s, percentage) ==
    [s EXCEPT !.throttle = percentage,
              !.thrust_level = RDiv(percentage, RInt(100))]

set_throttle(s, percentage) ==
    LET t == RMax(ThrottleMin, RMin(ThrottleMax, percentage))
    IN  [s EXCEPT !.throttle = t, !.thrust_level = RDiv(t, RInt(100))]

(* ------------------- floats beyond the integer range ------------------- *)

\* The float m * 10^e * 6.67430^g, in the one form where m is in lowest
\* terms with neither part a multiple of 5, and zero is 0 * 10^0.
RECURSIVE Sci(_, _, _)
Sci(m, e, g) ==
    IF m.n = 0 THEN [m |-> R0, e |-> 0, g |-> 0]
    ELSE IF m.n % 5 = 0 THEN Sci(R(m.n \div 5, 2 * m.d), e + 1, g)
    ELSE IF m.d % 5 = 0 THEN Sci(R(2 * m.n, m.d \div 5), e - 1, g)
    ELSE [m |-> m, e |-> e, g |-> g]

FromR(r) == Sci(r, 0, 0)

SciZero == FromR(R0)

SciMul(a, b) == Sci(RMul(a.m, b.m), a.e + b.e, a.g + b.g)

\* a / b for b # 0.
SciDiv(a, b) == Sci(RDiv(a.m, b.m), a.e - b.e, a.g - b.g)

(* ------------------------------ Vector3D ------------------------------- *)

\* The largest i in lo..hi with i * i <= n.
RECURSIVE Bisect(_, _, _)
Bisect(lo, hi, n) ==
    IF lo = hi THEN lo
    ELSE LET mid == (lo + hi + 1) \div 2
         IN  IF mid * mid <= n THEN Bisect(mid, hi, n)
             ELSE Bisect(lo, mid - 1, n)

\* The whole root of a square below 2^31.
Root(n) == CHOOSE i \in {Bisect(0, 46340, n)} : i * i = n

\* math.sqrt, exact on the squares of rationals.
sqrt(r) == [n |-> Root(r.n), d |-> Root(r.d)]

Vector3D(x, y, z) == <<x, y, z>>

sub(a, b) == Vector3D(RSub(a[1], b[1]), RSub(a[2], b[2]), RSub(a[3], b[3]))

neg(a) == Vector3D(RNeg(a[1]), RNeg(a[2]), RNeg(a[3]))

magnitude(a) ==
    sqrt(RAdd(RAdd(RMul(a[1], a[1]), RMul(a[2], a[2])), RMul(a[3], a[3])))

\* normalize dividing by the squared length.
normalize_by_square(a) ==
    LET mag == RAdd(RAdd(RMul(a[1], a[1]), RMul(a[2], a[2])),
                    RMul(a[3], a[3]))
    IN  IF mag = R0 THEN Vector3D(R0, R0, R0)
        ELSE Vector3D(RDiv(a[1], mag), RDiv(a[2], mag), RDiv(a[3], mag))

normalize(a) ==
    LET mag == magnitude(a)
    IN  IF mag = R0 THEN Vector3D(R0, R0, R0)
        ELSE Vector3D(RDiv(a[1], mag), RDiv(a[2], mag), RDiv(a[3], mag))

\* Vector3D.__mul__ by a scalar beyond the integer range.
mul(a, scalar) ==
    Vector3D(SciMul(FromR(a[1]), scalar), SciMul(FromR(a[2]), scalar),
             SciMul(FromR(a[3]), scalar))

\* Vector3D.__mul__ of a vector beyond the integer range by a float.
scale(a, scalar) ==
    Vector3D(SciMul(a[1], FromR(scalar)), SciMul(a[2], FromR(scalar)),
             SciMul(a[3], FromR(scalar)))

SciZero3 == Vector3D(SciZero, SciZero, SciZero)

\* Positions of bodies, spacecraft and queries: every two of them are a
\* whole number of metres apart.
Points == { Vector3D(R0, R0, R0), Vector3D(RInt(3), R0, R0),
            Vector3D(RInt(-3), R0, R0), Vector3D(R0, RInt(4), R0) }

(* ------------------------------ Quaternion ----------------------------- *)

Quaternion(w, x, y, z) == [w |-> w, x |-> x, y |-> y, z |-> z]

\* An angle t in (-2 pi, 2 pi] is held as the pair cos(t/2), sin(t/2),
\* both rational: math.cos(t * 0.5) is t.c and math.sin(t * 0.5) is t.s.
Angle(c, s) == [c |-> c, s |-> s]

\* The angle in (-pi, pi] with the given cosine and sine.
Principal(cosine, sine) ==
    LET half == RDiv(RAdd(RInt(1), cosine), RInt(2))
        rest == RDiv(RSub(RInt(1), cosine), RInt(2))
    IN  Angle(sqrt(half),
              IF RLt(sine, R0) THEN RNeg(sqrt(rest)) ELSE sqrt(rest))

\* math.asin for -1 <= v <= 1: the angle in [-pi/2, pi/2] with sine v.
asin(v) == Principal(sqrt(RSub(RInt(1), RMul(v, v))), v)

\* math.atan2.
atan2(y, x) ==
    LET n == sqrt(RAdd(RMul(x, x), RMul(y, y)))
    IN  IF n = R0 THEN Angle(RInt(1), R0)
        ELSE Principal(RDiv(x, n), RDiv(y, n))

\* The three terms to_euler hands to asin and atan2.
euler_terms(q) ==
    [ sinp  |-> RMul(RInt(2), RSub(RMul(q.w, q.y), RMul(q.z, q.x))),
      siny  |-> RMul(RInt(2), RAdd(RMul(q.w, q.z), RMul(q.x, q.y))),
      cosy  |-> RSub(RInt(1),
                     RMul(RInt(2), RAdd(RMul(q.y, q.y), RMul(q.z, q.z)))),
      sinr  |-> RMul(RInt(2), RAdd(RMul(q.w, q.x), RMul(q.y, q.z))),
      cosr  |-> RSub(RInt(1),
                     RMul(RInt(2), RAdd(RMul(q.x, q.x), RMul(q.y, q.y)))) ]

\* to_euler returning (pitch, roll, yaw).
to_euler_swapped(q) ==
    LET e == euler_terms(q)
    IN  IF RLt(RInt(1), e.sinp) \/ RLt(e.sinp, RInt(-1))
        THEN [ret |-> "None", raised |-> "ValueError"]
        ELSE [ret |-> <<asin(e.sinp), atan2(e.sinr, e.cosr),
                        atan2(e.siny, e.cosy)>>,
              raised |-> "none"]

\* math.asin raises ValueError outside [-1, 1].
to_euler(q) ==
    LET e == euler_terms(q)
    IN  IF RLt(RInt(1), e.sinp) \/ RLt(e.sinp, RInt(-1))
        THEN [ret |-> "None", raised |-> "ValueError"]
        ELSE [ret |-> <<asin(e.sinp), atan2(e.siny, e.cosy),
                        atan2(e.sinr, e.cosr)>>,
              raised |-> "none"]

from_euler(pitch, yaw, roll) ==
    LET cy == yaw.c
        sy == yaw.s
        cp == pitch.c
        sp == pitch.s
        cr == roll.c
        sr == roll.s
    IN  Quaternion(
            RAdd(RMul(RMul(cy, cp), cr), RMul(RMul(sy, sp), sr)),
            RSub(RMul(RMul(cy, cp), sr), RMul(RMul(sy, sp), cr)),
            RAdd(RMul(RMul(sy, cp), sr), RMul(RMul(cy, sp), cr)),
            RSub(RMul(RMul(sy, cp), cr), RMul(RMul(cy, sp), sr)))

\* The sum of the squares of the four components.
quaternion_norm2(q) ==
    RAdd(RAdd(RMul(q.w, q.w), RMul(q.x, q.x)),
         RAdd(RMul(q.y, q.y), RMul(q.z, q.z)))

\* Quaternion.normalize following the policy of Vector3D.normalize.
quaternion_normalize_zero(q) ==
    LET mag == sqrt(quaternion_norm2(q))
    IN  IF mag = R0 THEN Quaternion(R0, R0, R0, R0)
        ELSE Quaternion(RDiv(q.w, mag), RDiv(q.x, mag), RDiv(q.y, mag),
                        RDiv(q.z, mag))

\* Quaternion.normalize.
quaternion_normalize(q) ==
    LET mag == sqrt(quaternion_norm2(q))
    IN  IF mag = R0 THEN Quaternion(RInt(1), R0, R0, R0)
        ELSE Quaternion(RDiv(q.w, mag), RDiv(q.x, mag), RDiv(q.y, mag),
                        RDiv(q.z, mag))

(* ---------------------------- CelestialBody ---------------------------- *)

\* The value None where a CelestialBody is expected.
None == [none |-> TRUE]

\* CelestialBody(...) after __post_init__; obj tells one object from
\* another with the same field values.
CelestialBody(obj, id, type, mass, radius, depth, has_atmosphere, position) ==
    [ obj                 |-> obj,
      id                  |-> id,
      type                |-> type,
      mass                |-> mass,
      radius              |-> radius,
      atmosphere_depth    |-> depth,
      has_atmosphere      |-> has_atmosphere,
      position            |-> IF position = None THEN Vector3D(R0, R0, R0)
                              ELSE position,
      velocity            |-> Vector3D(R0, R0, R0) ]

\* The star built by _initialize_system.
Sun ==
    CelestialBody("sun0", "sun", "star", Sci(R(19891, 10000), 30, 0),
                  RInt(696340000), R0, FALSE, None)

\* get_surface_gravity without the test of the radius: Python raises on
\* a float division by zero.
get_surface_gravity_unguarded(body) ==
    LET G == Sci(RInt(1), -11, 1)
    IN  IF RMul(body.radius, body.radius) = R0
        THEN [ret |-> "None", raised |-> "ZeroDivisionError"]
        ELSE [ret |-> SciDiv(SciMul(G, body.mass),
                             FromR(RMul(body.radius, body.radius))),
              raised |-> "none"]

get_surface_gravity(body) ==
    LET G == Sci(RInt(1), -11, 1)
    IN  IF body.radius = R0
        THEN [ret |-> FromR(R0), raised |-> "none"]
        ELSE [ret |-> SciDiv(SciMul(G, body.mass),
                             FromR(RMul(body.radius, body.radius))),
              raised |-> "none"]

\* is_in_atmosphere with the boundary left out.
is_in_atmosphere_strict(body, position) ==
    IF ~body.has_atmosphere THEN FALSE
    ELSE RLt(magnitude(sub(position, body.position)),
             RAdd(body.radius, body.atmosphere_depth))

is_in_atmosphere(body, position) ==
    IF ~body.has_atmosphere THEN FALSE
    ELSE LET distance == magnitude(sub(position, body.position))
         IN  RLe(distance, RAdd(body.radius, body.atmosphere_depth))

(* ---------------------------- PhysicsEngine ---------------------------- *)

\* 6.67430e-11, the digits 6.67430 kept as a factor of their own.
G == Sci(RInt(1), -11, 1)

\* PhysicsEngine().
PhysicsEngine == [gravitational_constant |-> G]

\* calculate_gravity that takes the stored mass field for the mass.
calculate_gravity_stored_mass(eng, spacecraft, celestial_body) ==
    LET r == sub(spacecraft.position, celestial_body.position)
        distance == magnitude(r)
        force_magnitude ==
            SciDiv(SciMul(SciMul(eng.gravitational_constant,
                                 celestial_body.mass),
                          FromR(spacecraft.mass)),
                   FromR(RMul(distance, distance)))
    IN  [ret |-> IF distance = R0 THEN SciZero3
                 ELSE mul(neg(normalize(r)), force_magnitude),
         engine |-> eng, craft |-> spacecraft, body |-> celestial_body]

\* calculate_gravity that leaves out the negation of the direction.
calculate_gravity_outward(eng, spacecraft, celestial_body) ==
    LET r == sub(spacecraft.position, celestial_body.position)
        distance == magnitude(r)
        force_magnitude ==
            SciDiv(SciMul(SciMul(eng.gravitational_constant,
                                 celestial_body.mass),
                          FromR(get_current_mass(spacecraft))),
                   FromR(RMul(distance, distance)))
    IN  [ret |-> IF distance = R0 THEN SciZero3
                 ELSE mul(normalize(r), force_magnitude),
         engine |-> eng, craft |-> spacecraft, body |-> celestial_body]

\* calculate_gravity that also integrates: it stores force / mass as the
\* spacecraft's acceleration.
calculate_gravity_integrating(eng, spacecraft, celestial_body) ==
    LET r == sub(spacecraft.position, celestial_body.position)
        distance == magnitude(r)
        force_magnitude ==
            SciDiv(SciMul(SciMul(eng.gravitational_constant,
                                 celestial_body.mass),
                          FromR(get_current_mass(spacecraft))),
                   FromR(RMul(distance, distance)))
        force == IF distance = R0 THEN SciZero3
                 ELSE mul(neg(normalize(r)), force_magnitude)
    IN  [ret |-> force, engine |-> eng,
         craft |-> [spacecraft EXCEPT !.acceleration = force],
         body |-> celestial_body]

\* calculate_gravity(spacecraft, celestial_body): the force returned, and
\* the engine, the spacecraft and the body after the call.
calculate_gravity(eng, spacecraft, celestial_body) ==
    LET r == sub(spacecraft.position, celestial_body.position)
        distance == magnitude(r)
        force_magnitude ==
            SciDiv(SciMul(SciMul(eng.gravitational_constant,
                                 celestial_body.mass),
                          FromR(get_current_mass(spacecraft))),
                   FromR(RMul(distance, distance)))
    IN  [ret |-> IF distance = R0 THEN SciZero3
                 ELSE mul(neg(normalize(r)), force_magnitude),
         engine |-> eng, craft |-> spacecraft, body |-> celestial_body]

\* calculate_acceleration without the test for a zero mass: the division
\* raises ZeroDivisionError.
calculate_acceleration_unguarded(eng, force, mass) ==
    IF mass = R0
    THEN [ret |-> "None", raised |-> "ZeroDivisionError", engine |-> eng]
    ELSE [ret |-> scale(force, RDiv(RInt(1), mass)), raised |-> "none",
          engine |-> eng]

\* calculate_acceleration(force, mass): the value returned, the exception
\* raised and the engine after the call.
calculate_acceleration(eng, force, mass) ==
    IF mass = R0
    THEN [ret |-> SciZero3, raised |-> "none", engine |-> eng]
    ELSE [ret |-> scale(force, RDiv(RInt(1), mass)), raised |-> "none",
          engine |-> eng]

(* ----------------------------- SolarSystem ----------------------------- *)

\* A dict is the sequence of its items in insertion order.
keys(d) == {d[i].key : i \in 1..Len(d)}

\* d.get(k).
get(d, k) ==
    IF k \in keys(d)
    THEN d[CHOOSE i \in 1..Len(d) : d[i].key = k].value
    ELSE None

\* d[k] = v that moves a key already present to the end.
setitem_reinsert(d, k, v) ==
    SelectSeq(d, LAMBDA item : item.key # k)
        \o <<[key |-> k, value |-> v]>>

\* d[k] = v: a key already present keeps its place.
setitem(d, k, v) ==
    IF k \in keys(d)
    THEN [i \in 1..Len(d) |->
             IF d[i].key = k THEN [key |-> k, value |-> v] ELSE d[i]]
    ELSE Append(d, [key |-> k, value |-> v])

\* _initialize_system without the registration of the star.
initialize_system_unregistered(sys) == [sys EXCEPT !.sun = Sun]

initialize_system(sys) ==
    [sys EXCEPT !.sun = Sun, !.bodies = setitem(@, "sun", Sun)]

\* SolarSystem().
SolarSystem == initialize_system([bodies |-> <<>>, sun |-> None])

\* add_body that keeps the body first added under an id.
add_body_keep_first(sys, body) ==
    IF body.id \in keys(sys.bodies) THEN sys
    ELSE [sys EXCEPT !.bodies = setitem(@, body.id, body)]

add_body(sys, body) == [sys EXCEPT !.bodies = setitem(@, body.id, body)]

get_body(sys, body_id) == [ret |-> get(sys.bodies, body_id), system |-> sys]

\* The for loop of get_nearest_body from item i on; min_distance is
\* float("inf") while inf is set.
RECURSIVE nearest_scan(_, _, _, _, _, _)
nearest_scan(d, position, i, nearest, inf, min_distance) ==
    IF i > Len(d) THEN nearest
    ELSE LET body == d[i].value
             distance == magnitude(sub(position, body.position))
         IN  IF inf \/ RLt(distance, min_distance)
             THEN nearest_scan(d, position, i + 1, body, FALSE, distance)
             ELSE nearest_scan(d, position, i + 1, nearest, inf, min_distance)

\* The loop with <= for <: the last of the bodies at the least distance.
RECURSIVE nearest_scan_last(_, _, _, _, _, _)
nearest_scan_last(d, position, i, nearest, inf, min_distance) ==
    IF i > Len(d) THEN nearest
    ELSE LET body == d[i].value
             distance == magnitude(sub(position, body.position))
         IN  IF inf \/ RLe(distance, min_distance)
             THEN nearest_scan_last(d, position, i + 1, body, FALSE, distance)
             ELSE nearest_scan_last(d, position, i + 1, nearest, inf,
                                    min_distance)

\* get_nearest_body that returns the first body of the registry.
get_nearest_body_first(sys, position) ==
    [ret |-> IF Len(sys.bodies) = 0 THEN None ELSE sys.bodies[1].value,
     system |-> sys]

\* get_nearest_body that breaks ties for the body met last.
get_nearest_body_last(sys, position) ==
    [ret |-> IF Len(sys.bodies) = 0 THEN None
             ELSE nearest_scan_last(sys.bodies, position, 1, None, TRUE, R0),
     system |-> sys]

get_nearest_body(sys, position) ==
    [ret |-> IF Len(sys.bodies) = 0 THEN None
             ELSE nearest_scan(sys.bodies, position, 1, None, TRUE, R0),
     system |-> sys]

(* ------------------------------- Mission ------------------------------- *)

Objective(id) == [id |-> id, completed |-> FALSE]

\* Mission(objectives=...), the other fields at their defaults.
Mission(objectives) ==
    [ objectives              |-> objectives,
      current_objective_index |-> 0,
      objectives_completed    |-> 0,
      status                  |-> "not_started" ]

\* The for loop of complete_objective from the i-th objective on, without
\* the test of the completed flag.
RECURSIVE complete_scan_recount(_, _, _)
complete_scan_recount(m, objective_id, i) ==
    IF i > Len(m.objectives) THEN m
    ELSE IF m.objectives[i].id = objective_id
         THEN [m EXCEPT !.objectives[i].completed = TRUE,
                        !.objectives_completed = @ + 1]
         ELSE complete_scan_recount(m, objective_id, i + 1)

\* The for loop of complete_objective from the i-th objective on.
RECURSIVE complete_scan(_, _, _)
complete_scan(m, objective_id, i) ==
    IF i > Len(m.objectives) THEN m
    ELSE IF m.objectives[i].id = objective_id /\ ~m.objectives[i].completed
         THEN [m EXCEPT !.objectives[i].completed = TRUE,
                        !.objectives_completed = @ + 1]
         ELSE complete_scan(m, objective_id, i + 1)

\* complete_objective counting an objective each time it is named.
complete_objective_recount(m, objective_id) ==
    complete_scan_recount(m, objective_id, 1)

complete_objective(m, objective_id) == complete_scan(m, objective_id, 1)

check_completion(m) ==
    \A i \in 1..Len(m.objectives) : m.objectives[i].completed

(* ----------------------------- registration ---------------------------- *)

\* A str is the sequence of its characters.
ascii_lowercase ==
    <<"a", "b", "c", "d", "e", "f", "g", "h", "i", "j", "k", "l", "m",
      "n", "o", "p", "q", "r", "s", "t", "u", "v", "w", "x", "y", "z">>

ascii_uppercase ==
    <<"A", "B", "C", "D", "E", "F", "G", "H", "I", "J", "K", "L", "M",
      "N", "O", "P", "Q", "R", "S", "T", "U", "V", "W", "X", "Y", "Z">>

digits == {"0", "1", "2", "3", "4", "5", "6", "7", "8", "9"}

whitespace == {" ", "\t", "\n"}

Letter(alphabet, c) == \E i \in 1..Len(alphabet) : alphabet[i] = c

Place(alphabet, c) == CHOOSE i \in 1..Len(alphabet) : alphabet[i] = c

\* str.lower().
lower(s) ==
    [i \in 1..Len(s) |->
        IF Letter(ascii_uppercase, s[i])
        THEN ascii_lowercase[Place(ascii_uppercase, s[i])]
        ELSE s[i]]

\* str.upper().
upper(s) ==
    [i \in 1..Len(s) |->
        IF Letter(ascii_lowercase, s[i])
        THEN ascii_uppercase[Place(ascii_lowercase, s[i])]
        ELSE s[i]]

\* str.isdigit() of one character.
isdigit(c) == c \in digits

RECURSIVE lstrip(_)
lstrip(s) ==
    IF s # <<>> /\ Head(s) \in whitespace THEN lstrip(Tail(s)) ELSE s

RECURSIVE rstrip(_)
rstrip(s) ==
    IF s # <<>> /\ s[Len(s)] \in whitespace
    THEN rstrip(SubSeq(s, 1, Len(s) - 1))
    ELSE s

\* str.strip().
strip(s) == rstrip(lstrip(s))

MIN_PASSWORD_LENGTH == 8

\* _validate_password(password): the exception raised.
validate_password(password) ==
    IF Len(password) < MIN_PASSWORD_LENGTH THEN "RegistrationError"
    ELSE IF lower(password) = password \/ upper(password) = password
         THEN "RegistrationError"
    ELSE IF ~(\E i \in 1..Len(password) : isdigit(password[i]))
         THEN "RegistrationError"
    ELSE "none"

\* _hash_password(password, salt), kept as the pair it is derived from.
hash_password(password, salt) == [password |-> password, salt |-> salt]

\* User(id, username, email, display_name), the settings and statistics
\* at their defaults.
User(id, username, email, display_name) ==
    [id |-> id, username |-> username, email |-> email,
     display_name |-> display_name]

AuthProfile(id, user_id, username, email, password_hash, password_salt) ==
    [id |-> id, user_id |-> user_id, username |-> username, email |-> email,
     password_hash |-> password_hash, password_salt |-> password_salt]

\* InMemoryUserRepository() and InMemoryAuthRepository().
NewRepos ==
    [ users                 |-> <<>>,
      profiles_by_id        |-> <<>>,
      profiles_by_username  |-> <<>>,
      profiles_by_email     |-> <<>>,
      profiles_by_user_id   |-> <<>> ]

\* The scan of _users.values() for the first user of the username.
get_user_by_username(r, username) ==
    LET found == {i \in 1..Len(r.users) : r.users[i].value.username = username}
    IN  IF found = {} THEN None
        ELSE r.users[CHOOSE i \in found : \A j \in found : i <= j].value

\* The scan of _users.values() for the first user of the email.
get_user_by_email(r, email) ==
    LET found == {i \in 1..Len(r.users) : r.users[i].value.email = email}
    IN  IF found = {} THEN None
        ELSE r.users[CHOOSE i \in found : \A j \in found : i <= j].value

save_user(r, user) == [r EXCEPT !.users = setitem(@, user.id, user)]

save_profile(r, profile) ==
    [r EXCEPT !.profiles_by_id = setitem(@, profile.id, profile),
              !.profiles_by_username = setitem(@, profile.username, profile.id),
              !.profiles_by_email = setitem(@, profile.email, profile.id),
              !.profiles_by_user_id = setitem(@, profile.user_id, profile.id)]

\* InMemoryAuthRepository._get(profile_id).
get_profile(r, profile_id) == get(r.profiles_by_id, profile_id)

get_by_username(r, username) ==
    IF username \in keys(r.profiles_by_username)
    THEN get_profile(r, get(r.profiles_by_username, username))
    ELSE None

get_by_email(r, email) ==
    IF email \in keys(r.profiles_by_email)
    THEN get_profile(r, get(r.profiles_by_email, email))
    ELSE None

\* UserService.create_user(username, email, display_name) with the uuid
\* drawn for the user: the user returned, the exception raised and the
\* repositories after the call.
create_user(r, username, email, display_name, user_id) ==
    IF get_user_by_username(r, username) # None
    THEN [ret |-> None, raised |-> "ValueError", repos |-> r]
    ELSE IF get_user_by_email(r, email) # None
    THEN [ret |-> None, raised |-> "ValueError", repos |-> r]
    ELSE LET user == User(user_id, username, email, display_name)
         IN  [ret |-> user, raised |-> "none", repos |-> save_user(r, user)]

\* The part of register_user after the normalisation of its arguments.
register_normalized(r, normalized_username, normalized_email, password, display_name, user_id, auth_id, salt) ==
    IF normalized_username = <<>>
    THEN [ret |-> None, raised |-> "RegistrationError", repos |-> r]
    ELSE IF display_name = <<>>
    THEN [ret |-> None, raised |-> "RegistrationError", repos |-> r]
    ELSE IF validate_password(password) # "none"
    THEN [ret |-> None, raised |-> validate_password(password), repos |-> r]
    ELSE IF get_by_username(r, normalized_username) # None
    THEN [ret |-> None, raised |-> "RegistrationError", repos |-> r]
    ELSE IF get_by_email(r, normalized_email) # None
    THEN [ret |-> None, raised |-> "RegistrationError", repos |-> r]
    ELSE LET made == create_user(r, normalized_username, normalized_email,
                                 display_name, user_id)
             auth_profile ==
                 AuthProfile(auth_id, made.ret.id, normalized_username,
                             normalized_email, hash_password(password, salt),
                             salt)
         IN  IF made.raised # "none" THEN made
             ELSE [ret |-> [user |-> made.ret, auth_profile |-> auth_profile],
                   raised |-> "none",
                   repos |-> save_profile(made.repos, auth_profile)]

\* register_user that keeps the case of the email.
register_user_keeping_case(r, username, email, password, display_name, user_id, auth_id, salt) ==
    register_normalized(r, strip(username), strip(email), password,
                        strip(display_name), user_id, auth_id, salt)

\* register_user(username, email, password, display_name) with the uuids
\* and the salt drawn for it.
register_user(r, username, email, password, display_name, user_id, auth_id, salt) ==
    register_normalized(r, strip(username), lower(strip(email)), password,
                        strip(display_name), user_id, auth_id, salt)

(* ------------------------------- actions ------------------------------- *)

\* The ids first inserted into the registry, in that order, the body last
\* inserted under each, and the ids inserted more than once.
NewHist == [order |-> <<"sun">>, latest |-> ("sun" :> Sun), readded |-> {}]

\* No call has been made yet.
NoCall ==
    [op |-> "init", arg |-> "None", ret |-> "None", raised |-> "none",
     pre |-> sc, pre_engine |-> engine, pre_system |-> system,
     pre_repos |-> repos, pre_mission |-> mission]

\* The spacecraft a run starts with: a 1000 L tank at some level, or no
\* tank at all.
InitCraft ==
    { NewSpacecraft(RInt(1000), f, t, o) :
          f \in InitFuel, t \in InitThrust, o \in InitOxygen }
    \cup { NewSpacecraft(R0, R0, R0, RInt(100)) }

Init ==
    /\ sc \in InitCraft
    /\ engine = PhysicsEngine
    /\ system = SolarSystem
    /\ hist = NewHist
    /\ repos = NewRepos
    /\ mission = Mission(<<>>)
    /\ last = NoCall
    /\ called = {}
    /\ steps = 0

\* What the call just made was, what it returned, which exception it
\* raised and the objects as they were before it.
Outcome(op, arg, ret, raised) ==
    last' = [op |-> op, arg |-> arg, ret |-> ret, raised |-> raised,
             pre |-> sc, pre_engine |-> engine, pre_system |-> system,
             pre_repos |-> repos, pre_mission |-> mission]

\* A call that counts as a step of the run; no Spacecraft method has a
\* raise statement.
Record(op, arg, ret) ==
    /\ Outcome(op, arg, ret, "none")
    /\ called' = called \cup {op}
    /\ steps' = steps + 1

\* A call that only reads.
Query(op, arg, ret, raised) ==
    /\ Outcome(op, arg, ret, raised)
    /\ UNCHANGED <<called, steps>>

SetThrottle(percentage) ==
    /\ steps < MaxSteps
    /\ sc' = set_throttle(sc, percentage)
    /\ Record("set_throttle", percentage, "None")
    /\ UNCHANGED <<engine, system, hist, repos, mission>>

\* The caller flips the boost flag (a plain field write).
ToggleBoost ==
    /\ steps < MaxSteps
    /\ sc' = [sc EXCEPT !.boost_active = ~@]
    /\ Record("toggle_boost", "None", "None")
    /\ UNCHANGED <<engine, system, hist, repos, mission>>

ConsumeFuel(dt) ==
    /\ steps < MaxSteps
    /\ LET r == consume_fuel(sc, dt)
       IN  /\ sc' = r.craft
           /\ Record("consume_fuel", dt, r.ret)
    /\ UNCHANGED <<engine, system, hist, repos, mission>>

UpdateLifeSupport(dt) ==
    /\ steps < MaxSteps
    /\ sc' = update_life_support(sc, dt)
    /\ Record("update_life_support", dt, "None")
    /\ UNCHANGED <<engine, system, hist, repos, mission>>

GetCurrentMass ==
    /\ steps < MaxSteps
    /\ sc' = sc
    /\ Record("get_current_mass", "None", get_current_mass(sc))
    /\ UNCHANGED <<engine, system, hist, repos, mission>>

GetFuelPercent ==
    /\ last.op # "get_fuel_percent"
    /\ LET r == get_fuel_percent(sc)
       IN  Query("get_fuel_percent", "None", r.ret, r.raised)
    /\ UNCHANGED <<sc, engine, system, hist, repos, mission>>

Next ==
    \/ \E p \in ThrottleArgs : SetThrottle(p)
    \/ ToggleBoost
    \/ \E dt \in DtSet : ConsumeFuel(dt)
    \/ \E dt \in DtSet : UpdateLifeSupport(dt)
    \/ GetCurrentMass
    \/ GetFuelPercent

Spec == Init /\ [][Next]_vars

(* --------------------- physics engine: state machine -------------------- *)

\* The bodies handed to the registry and to the engine.  Distances are a
\* few metres, so the radii are too.
Earth ==
    CelestialBody("earth0", "earth", "planet", Sci(R(5972, 1000), 24, 0),
                  RInt(3), RInt(2), TRUE, Vector3D(RInt(3), R0, R0))

\* A second object with the id "earth", elsewhere.
Earth2 ==
    CelestialBody("earth1", "earth", "planet", Sci(R(5972, 1000), 24, 0),
                  RInt(3), RInt(2), TRUE, Vector3D(RInt(-3), R0, R0))

Mars ==
    CelestialBody("mars0", "mars", "planet", Sci(R(639, 100), 23, 0),
                  RInt(1), RInt(1), TRUE, Vector3D(RInt(-3), R0, R0))

\* A body whose atmosphere flag is off.
Ceres ==
    CelestialBody("ceres0", "ceres", "asteroid", Sci(R(94, 10), 20, 0),
                  RInt(3), RInt(2), FALSE, Vector3D(R0, RInt(4), R0))

\* A second object with the id "sun", elsewhere.
Sun2 ==
    CelestialBody("sun1", "sun", "star", Sci(R(19891, 10000), 30, 0),
                  RInt(696340000), R0, FALSE, Vector3D(R0, RInt(4), R0))

\* A body without extent.
Dust ==
    CelestialBody("dust0", "dust", "asteroid", Sci(R(94, 10), 20, 0),
                  R0, R0, FALSE, Vector3D(R0, RInt(4), R0))

BodyPool == {Sun, Earth, Earth2, Mars, Ceres, Sun2}

\* The bodies asked for their surface gravity.
SurfaceBodies == {Earth, Mars, Ceres, Dust}

\* Ids looked up, one of them never inserted.
BodyIds == {"sun", "earth", "mars", "pluto"}

\* Force arguments of calculate_acceleration next to the forces the engine
\* returned.
ForceArgs ==
    { SciZero3,
      Vector3D(FromR(RInt(3)), FromR(RInt(-4)), SciZero),
      Vector3D(Sci(RInt(6), 20, 1), SciZero, Sci(RInt(-1), 3, 0)) }

\* Mass arguments of calculate_acceleration next to the spacecraft's mass.
MassArgs == {R0, RInt(2), R(-1, 2)}

\* The bodies whose pull on the spacecraft is asked for.
GravityBodies == {Sun, Earth, Mars}

\* Number of throttle and fuel steps before the engine is asked.
MaxBurns == 2

\* A spacecraft that burns 10 L/s at full thrust, somewhere in space.
InitPhysics ==
    /\ \E p \in Points :
           sc = [NewSpacecraft(RInt(1000), RInt(500), R0, RInt(100))
                     EXCEPT !.max_thrust = RInt(9810),
                            !.specific_impulse = RInt(100),
                            !.position = p]
    /\ engine = PhysicsEngine
    /\ system = SolarSystem
    /\ hist = NewHist
    /\ repos = NewRepos
    /\ mission = Mission(<<>>)
    /\ last = NoCall
    /\ called = {}
    /\ steps = 0

CalculateGravity(body) ==
    /\ LET r == calculate_gravity(engine, sc, body)
       IN  /\ engine' = r.engine
           /\ sc' = r.craft
           /\ Query("calculate_gravity", body,
                    [force |-> r.ret, body |-> r.body], "none")
    /\ UNCHANGED <<system, hist, repos, mission>>

CalculateAcceleration(force, mass) ==
    /\ LET r == calculate_acceleration(engine, force, mass)
       IN  /\ engine' = r.engine
           /\ Query("calculate_acceleration",
                    [force |-> force, mass |-> mass], r.ret, r.raised)
    /\ UNCHANGED <<sc, system, hist, repos, mission>>

\* The caller turns the force the engine returned into an acceleration.
AccelerateByGravity ==
    /\ last.op = "calculate_gravity"
    /\ CalculateAcceleration(last.ret.force, get_current_mass(sc))

NextPhysics ==
    \/ \E p \in ThrottleArgs : steps < MaxBurns /\ SetThrottle(p)
    \/ \E dt \in DtSet : steps < MaxBurns /\ ConsumeFuel(dt)
    \/ \E b \in GravityBodies : CalculateGravity(b)
    \/ \E f \in ForceArgs, m \in MassArgs : CalculateAcceleration(f, m)
    \/ AccelerateByGravity

SpecPhysics == InitPhysics /\ [][NextPhysics]_vars

(* ----------------------- solar system: state machine -------------------- *)

\* Number of writes to the registry in one run.
MaxAdds == 3

InitSolar ==
    /\ sc = NewSpacecraft(RInt(1000), RInt(500), R0, RInt(100))
    /\ engine = PhysicsEngine
    /\ system = SolarSystem
    /\ hist = NewHist
    /\ repos = NewRepos
    /\ mission = Mission(<<>>)
    /\ last = NoCall
    /\ called = {}
    /\ steps = 0

AddBody(body) ==
    /\ steps < MaxAdds
    /\ system' = add_body(system, body)
    /\ hist' = [order  |-> IF \E i \in 1..Len(hist.order) :
                                  hist.order[i] = body.id
                           THEN hist.order
                           ELSE Append(hist.order, body.id),
                latest |-> (body.id :> body) @@ hist.latest,
                readded |-> IF body.id \in DOMAIN hist.latest
                            THEN hist.readded \cup {body.id}
                            ELSE hist.readded]
    /\ Record("add_body", body, "None")
    /\ UNCHANGED <<sc, engine, repos, mission>>

\* The caller replaces the registry by an empty one (system.bodies = {}).
ClearBodies ==
    /\ steps < MaxAdds
    /\ system' = [system EXCEPT !.bodies = <<>>]
    /\ hist' = [order |-> <<>>, latest |-> <<>>, readded |-> {}]
    /\ Record("clear_bodies", "None", "None")
    /\ UNCHANGED <<sc, engine, repos, mission>>

GetBody(body_id) ==
    /\ LET r == get_body(system, body_id)
       IN  /\ system' = r.system
           /\ Query("get_body", body_id, r.ret, "none")
    /\ UNCHANGED <<sc, engine, hist, repos, mission>>

GetNearestBody(position) ==
    /\ LET r == get_nearest_body(system, position)
       IN  /\ system' = r.system
           /\ Query("get_nearest_body", position, r.ret, "none")
    /\ UNCHANGED <<sc, engine, hist, repos, mission>>

IsInAtmosphere(body, position) ==
    /\ Query("is_in_atmosphere", [body |-> body, position |-> position],
             is_in_atmosphere(body, position), "none")
    /\ UNCHANGED <<sc, engine, system, hist, repos, mission>>

GetSurfaceGravity(body) ==
    /\ LET r == get_surface_gravity(body)
       IN  Query("get_surface_gravity", body, r.ret, r.raised)
    /\ UNCHANGED <<sc, engine, system, hist, repos, mission>>

NextSolar ==
    \/ \E b \in BodyPool : AddBody(b)
    \/ ClearBodies
    \/ \E id \in BodyIds : GetBody(id)
    \/ \E p \in Points : GetNearestBody(p)
    \/ \E b \in BodyPool, p \in Points : IsInAtmosphere(b, p)
    \/ \E b \in SurfaceBodies : GetSurfaceGravity(b)

SpecSolar == InitSolar /\ [][NextSolar]_vars

(* ------------------------- fixed-timestep loop ------------------------- *)

\* Time steps of the loop that drives the spacecraft.
LoopDt == {RInt(1), RInt(10), RInt(300)}

\* Throttle settings held during the loop.
LoopThrottle == {RInt(50), RInt(100)}

\* The loop starts with the throttle set and keeps one time step.
InitBurn ==
    /\ \E f \in {RInt(500), RInt(1000)}, p \in LoopThrottle, b \in BOOLEAN :
           sc = [set_throttle(NewSpacecraft(RInt(1000), f, R0, RInt(100)), p)
                     EXCEPT !.max_thrust = RInt(9810),
                            !.specific_impulse = RInt(100),
                            !.boost_active = b]
    /\ engine = PhysicsEngine
    /\ system = SolarSystem
    /\ \E dt \in LoopDt : hist = [dt |-> dt]
    /\ repos = NewRepos
    /\ mission = Mission(<<>>)
    /\ last = [NoCall EXCEPT !.arg = hist.dt, !.ret = R0]
    /\ called = {}
    /\ steps = 0

\* One iteration of the loop: consume_fuel(dt).  The loop has no last
\* iteration, so its calls are not counted.
Tick ==
    /\ LET r == consume_fuel(sc, hist.dt)
       IN  /\ sc' = r.craft
           /\ Outcome("consume_fuel", hist.dt, r.ret, "none")
    /\ called' = called \cup {"consume_fuel"}
    /\ UNCHANGED <<steps, engine, system, hist, repos, mission>>

NextBurn == Tick

\* The caller keeps calling.
SpecBurn == InitBurn /\ [][NextBurn]_vars /\ WF_vars(Tick)

(* ----------------------------- registering ------------------------------ *)

\* Number of registrations that succeed in one run.
MaxRegs == 2

Form(username, email, password, display_name) ==
    [username |-> username, email |-> email, password |-> password,
     display_name |-> display_name]

\* The requests sent to register_user.
Forms ==
    {
      \* a first registration, the password of the least length
      Form(<<"a", "l">>,
           <<"a", "l", "@", "x", ".", "i", "o">>,
           <<"P", "a", "s", "s", "w", "0", "r", "d">>,
           <<"A", "l">>),
      \* the same username once trimmed
      Form(<<" ", "a", "l", " ">>,
           <<"z", "e", "d", "@", "x", ".", "i", "o">>,
           <<"P", "a", "s", "s", "w", "0", "r", "d", "1">>,
           <<"A", "l", " ", "T", "w", "o">>),
      \* the same email once trimmed and lower-cased
      Form(<<"b", "o", "b">>,
           <<" ", "A", "L", "@", "X", ".", "i", "o", " ">>,
           <<"P", "a", "s", "s", "w", "0", "r", "d", "1">>,
           <<"B", "o", "b">>),
      \* a second user
      Form(<<"b", "o", "b">>,
           <<"b", "o", "b", "@", "x", ".", "i", "o">>,
           <<"P", "a", "s", "s", "w", "0", "r", "d", "1">>,
           <<" ", "B", "o", "b", " ">>),
      \* a username that differs by case only
      Form(<<"A", "l">>,
           <<"c", "y", "@", "x", ".", "i", "o">>,
           <<"P", "a", "s", "s", "w", "0", "r", "d", "1">>,
           <<"C", "y">>),
      \* a blank username
      Form(<<" ", " ">>,
           <<"d", "e", "e", "@", "x", ".", "i", "o">>,
           <<"P", "a", "s", "s", "w", "0", "r", "d", "1">>,
           <<"D", "e", "e">>),
      \* a blank display name
      Form(<<"e", "v", "e">>,
           <<"e", "v", "e", "@", "x", ".", "i", "o">>,
           <<"P", "a", "s", "s", "w", "0", "r", "d", "1">>,
           <<" ">>),
      \* a password one character short
      Form(<<"f", "a", "y">>,
           <<"f", "a", "y", "@", "x", ".", "i", "o">>,
           <<"P", "a", "s", "s", "w", "0", "r">>,
           <<"F", "a", "y">>),
      \* no upper-case letter
      Form(<<"g", "u", "s">>,
           <<"g", "u", "s", "@", "x", ".", "i", "o">>,
           <<"p", "a", "s", "s", "w", "0", "r", "d", "1">>,
           <<"G", "u", "s">>),
      \* no lower-case letter
      Form(<<"h", "a", "l">>,
           <<"h", "a", "l", "@", "x", ".", "i", "o">>,
           <<"P", "A", "S", "S", "W", "0", "R", "D", "1">>,
           <<"H", "a", "l">>),
      \* no digit
      Form(<<"i", "a", "n">>,
           <<"i", "a", "n", "@", "x", ".", "i", "o">>,
           <<"P", "a", "s", "s", "w", "o", "r", "d", "s">>,
           <<"I", "a", "n">>) }

\* The values uuid4().hex[:8] gives, in the order they are drawn: a draw
\* gives a value no earlier draw gave.
UserIds == <<"user-1a", "user-2b", "user-3c", "user-4d">>

AuthIds == <<"auth-1a", "auth-2b", "auth-3c", "auth-4d">>

\* The value of secrets.token_hex(16).
Salts == {"5a17"}

InitAuth ==
    /\ sc = NewSpacecraft(RInt(1000), RInt(500), R0, RInt(100))
    /\ engine = PhysicsEngine
    /\ system = SolarSystem
    /\ hist = NewHist
    /\ repos = NewRepos
    /\ mission = Mission(<<>>)
    /\ last = NoCall
    /\ called = {}
    /\ steps = 0

\* One call of register_user; the registrations that succeed are counted.
RegisterUser(form, salt) ==
    LET user_id == UserIds[Len(repos.users) + 1]
        auth_id == AuthIds[Len(repos.profiles_by_id) + 1]
        out == register_user(repos, form.username, form.email, form.password,
                             form.display_name, user_id, auth_id, salt)
    IN  /\ out.raised = "none" => steps < MaxRegs
        /\ repos' = out.repos
        /\ Outcome("register_user", form, out.ret, out.raised)
        /\ called' = called \cup {"register_user"}
        /\ steps' = IF out.raised = "none" THEN steps + 1 ELSE steps
        /\ UNCHANGED <<sc, engine, system, hist, mission>>

NextAuth ==
    \E form \in Forms, salt \in Salts : RegisterUser(form, salt)

SpecAuth == InitAuth /\ [][NextAuth]_vars

(* ------------------------------ missions ------------------------------- *)

\* Number of complete_objective calls in one run.
MaxCompletes == 4

\* The objective lists missions start with, one of them with an id twice.
ObjectiveLists ==
    { <<>>,
      <<Objective("obj-1")>>,
      <<Objective("obj-1"), Objective("obj-2")>>,
      <<Objective("obj-1"), Objective("obj-2"), Objective("obj-3")>>,
      <<Objective("obj-1"), Objective("obj-2"), Objective("obj-1")>> }

\* Ids handed to complete_objective, one of them of no objective.
ObjectiveIds == {"obj-1", "obj-2", "obj-3", "obj-9"}

InitMission ==
    /\ sc = NewSpacecraft(RInt(1000), RInt(500), R0, RInt(100))
    /\ engine = PhysicsEngine
    /\ system = SolarSystem
    /\ hist = NewHist
    /\ repos = NewRepos
    /\ mission \in {Mission(o) : o \in ObjectiveLists}
    /\ last = NoCall
    /\ called = {}
    /\ steps = 0

CompleteObjective(objective_id) ==
    /\ steps < MaxCompletes
    /\ mission' = complete_objective(mission, objective_id)
    /\ Record("complete_objective", objective_id, "None")
    /\ UNCHANGED <<sc, engine, system, hist, repos>>

CheckCompletion ==
    /\ Query("check_completion", "None", check_completion(mission), "none")
    /\ UNCHANGED <<sc, engine, system, hist, repos, mission>>

NextMission ==
    \/ \E id \in ObjectiveIds : CompleteObjective(id)
    \/ CheckCompletion

SpecMission == InitMission /\ [][NextMission]_vars

(* ------------------- vectors and quaternions: calls -------------------- *)

\* Whether a whole number below 2^31 is a square.
IsSquare(n) == Bisect(0, 46340, n) * Bisect(0, 46340, n) = n

\* The vectors normalized: those of whole components up to 2 whose
\* length is a whole number.
VectorArgs ==
    { v \in { Vector3D(RInt(x), RInt(y), RInt(z)) :
                  x \in -2..2, y \in -2..2, z \in -2..2 } :
          IsSquare(v[1].n * v[1].n + v[2].n * v[2].n + v[3].n * v[3].n) }

\* The quaternions normalized: those of components 0, 1 and -1 whose
\* norm is a whole number.
QuaternionArgs ==
    { q \in { Quaternion(RInt(w), RInt(x), RInt(y), RInt(z)) :
                  w \in -1..1, x \in -1..1, y \in -1..1, z \in -1..1 } :
          IsSquare(q.w.n * q.w.n + q.x.n * q.x.n + q.y.n * q.y.n
                       + q.z.n * q.z.n) }

\* Pitch angles: 0, about 74, -74 and 106 degrees.
PitchArgs ==
    { Angle(RInt(1), R0), Angle(R(4, 5), R(3, 5)), Angle(R(4, 5), R(-3, 5)),
      Angle(R(3, 5), R(4, 5)) }

\* Yaw angles: 0, about 74, -106, 180 and 254 degrees, and 360.
YawArgs ==
    { Angle(RInt(1), R0), Angle(R(4, 5), R(3, 5)), Angle(R(3, 5), R(-4, 5)),
      Angle(R0, RInt(1)), Angle(R(-3, 5), R(4, 5)), Angle(RInt(-1), R0) }

\* Roll angles: 0, about -74, 106 and 254 degrees.
RollArgs ==
    { Angle(RInt(1), R0), Angle(R(4, 5), R(-3, 5)), Angle(R(3, 5), R(4, 5)),
      Angle(R(-3, 5), R(4, 5)) }

InitTypes ==
    /\ sc = NewSpacecraft(RInt(1000), RInt(500), R0, RInt(100))
    /\ engine = PhysicsEngine
    /\ system = SolarSystem
    /\ hist = [euler |-> "None"]
    /\ repos = NewRepos
    /\ mission = Mission(<<>>)
    /\ last = NoCall
    /\ called = {}
    /\ steps = 0

\* hist holds the angles from_euler was called with while its quaternion
\* is the one at hand.
Normalize(v) ==
    /\ Query("normalize", v, normalize(v), "none")
    /\ hist' = [euler |-> "None"]
    /\ UNCHANGED <<sc, engine, system, repos, mission>>

QuaternionNormalize(q) ==
    /\ Query("quaternion_normalize", q, quaternion_normalize(q), "none")
    /\ hist' = [euler |-> "None"]
    /\ UNCHANGED <<sc, engine, system, repos, mission>>

FromEuler(pitch, yaw, roll) ==
    /\ Query("from_euler", <<pitch, yaw, roll>>,
             from_euler(pitch, yaw, roll), "none")
    /\ hist' = [euler |-> <<pitch, yaw, roll>>]
    /\ UNCHANGED <<sc, engine, system, repos, mission>>

\* to_euler of the quaternion from_euler has just built.
ToEuler ==
    /\ last.op = "from_euler"
    /\ LET r == to_euler(last.ret)
       IN  Query("to_euler", last.ret, r.ret, r.raised)
    /\ UNCHANGED <<sc, engine, system, hist, repos, mission>>

NextTypes ==
    \/ \E v \in VectorArgs : Normalize(v)
    \/ \E q \in QuaternionArgs : QuaternionNormalize(q)
    \/ \E p \in PitchArgs, y \in YawArgs, r \in RollArgs :
           FromEuler(p, y, r)
    \/ ToEuler

SpecTypes == InitTypes /\ [][NextTypes]_vars

(* ------------------------------- claims -------------------------------- *)

\* rate * dt * (2 if boost else 1), written out from the claim's formula.
Demand(s, dt) ==
    RMul(RMul(RDiv(RMul(s.thrust_level, s.max_thrust),
                   RMul(s.specific_impulse, R(981, 100))), dt),
         IF s.boost_active THEN RInt(2) ELSE RInt(1))

Consumed == last.op = "consume_fuel"

\* C1: starting from current_fuel >= 0, no sequence of set_throttle calls,
\* boost toggles and consume_fuel(dt) calls, whatever dt and thrust level,
\* makes current_fuel negative.
FuelNeverNegative == RLe(R0, sc.current_fuel)

\* A consume_fuel call that asked for more than the tank held and emptied it.
FuelCappedAtEmpty ==
    /\ Consumed
    /\ RLt(R0, last.pre.thrust_level)
    /\ RLt(R0, last.pre.current_fuel)
    /\ RLt(last.pre.current_fuel, Demand(last.pre, last.arg))
    /\ sc.current_fuel = R0

\* C2: every mutator keeps 0 <= current_fuel <= max_fuel_capacity, for
\* arbitrary arguments.
FuelWithinCapacity ==
    /\ RLe(R0, sc.current_fuel)
    /\ RLe(sc.current_fuel, sc.max_fuel_capacity)

\* The consume_fuel call just made, as made on the same spacecraft with the
\* boost flag set to b: the call itself when the flag was b, and otherwise
\* the call on the twin craft.
TwinCall(b) ==
    IF last.pre.boost_active = b
    THEN [ret |-> last.ret, craft |-> sc]
    ELSE consume_fuel([last.pre EXCEPT !.boost_active = b], last.arg)

Removed(call) == RSub(last.pre.current_fuel, call.craft.current_fuel)

BoostDoubles ==
    /\ TwinCall(TRUE).ret = RMul(RInt(2), TwinCall(FALSE).ret)
    /\ Removed(TwinCall(TRUE)) = RMul(RInt(2), Removed(TwinCall(FALSE)))

\* C3 as stated: with the same thrust_level and dt the boosted craft
\* consumes (returns and removes) exactly twice what the non-boosted one
\* does.
BoostExactlyDouble == Consumed => BoostDoubles

\* C3 amended: the boosted craft consumes exactly twice the non-boosted
\* amount whenever the boosted demand 2 * rate * dt does not exceed
\* current_fuel.
BoostDoubleWithinFuel ==
    (/\ Consumed
     /\ RLe(Demand([last.pre EXCEPT !.boost_active = TRUE], last.arg),
            last.pre.current_fuel))
    => BoostDoubles

\* A boosted consume_fuel call under thrust that the tank could serve.
BoostedUncappedCall ==
    /\ Consumed
    /\ last.pre.boost_active
    /\ RLt(R0, last.pre.thrust_level)
    /\ RLt(R0, last.ret)
    /\ RLt(last.ret, last.pre.current_fuel)

NoThrustNoConsumption ==
    (Consumed /\ RLe(last.pre.thrust_level, R0)) =>
        /\ last.ret = R0
        /\ sc = last.pre

\* A boosted consume_fuel call over a long interval at negative thrust.
NegativeThrustCall ==
    /\ Consumed
    /\ RLt(last.pre.thrust_level, R0)
    /\ last.pre.boost_active
    /\ RLt(RInt(1), last.arg)
    /\ RLt(R0, sc.current_fuel)

\* C6: set_throttle(pct) sets throttle to pct clamped to [0, 100] and
\* thrust_level to throttle/100; once set_throttle has been called,
\* 0 <= throttle <= 100, 0 <= thrust_level <= 1 and
\* thrust_level = throttle/100.
ThrottleClamped ==
    /\ last.op = "set_throttle" =>
           sc.throttle = IF RLt(last.arg, R0) THEN R0
                         ELSE IF RLt(RInt(100), last.arg) THEN RInt(100)
                         ELSE last.arg
    /\ "set_throttle" \in called =>
           /\ RLe(R0, sc.throttle) /\ RLe(sc.throttle, RInt(100))
           /\ RLe(R0, sc.thrust_level) /\ RLe(sc.thrust_level, RInt(1))
           /\ RMul(sc.thrust_level, RInt(100)) = sc.throttle

\* set_throttle(150) on a craft built with a negative thrust_level.
ThrottleClampedFromAbove ==
    /\ last.op = "set_throttle"
    /\ last.arg = RInt(150)
    /\ RLt(last.pre.thrust_level, R0)
    /\ sc.throttle = RInt(100)
    /\ sc.thrust_level = RInt(1)

\* C7: once update_life_support has run, life_support_status is 'nominal'
\* if oxygen > 50, 'warning' if 20 < oxygen <= 50 and 'critical' otherwise,
\* for the oxygen level the spacecraft now has ('warning' at exactly 50,
\* 'critical' at exactly 20).
StatusFollowsOxygen ==
    "update_life_support" \in called =>
        /\ RLt(RInt(50), sc.oxygen_level)
               => sc.life_support_status = "nominal"
        /\ (RLt(RInt(20), sc.oxygen_level) /\ RLe(sc.oxygen_level, RInt(50)))
               => sc.life_support_status = "warning"
        /\ RLe(sc.oxygen_level, RInt(20))
               => sc.life_support_status = "critical"

\* An update that brought the oxygen level down to exactly 50.
WarningAtFifty ==
    /\ last.op = "update_life_support"
    /\ RLt(RInt(50), last.pre.oxygen_level)
    /\ sc.oxygen_level = RInt(50)
    /\ sc.life_support_status = "warning"

\* C8: update_life_support(dt) sets oxygen_level to
\* max(0, oxygen_level - 0.1*dt), and from a level in [0, 100] the oxygen
\* level stays in [0, 100] after any sequence of calls.
OxygenWithinRange ==
    /\ last.op = "update_life_support" =>
           LET o == RSub(last.pre.oxygen_level, RMul(R(1, 10), last.arg))
           IN  sc.oxygen_level = IF RLt(o, R0) THEN R0 ELSE o
    /\ RLe(R0, sc.oxygen_level)
    /\ RLe(sc.oxygen_level, RInt(100))

\* C9: consume_fuel(dt) and update_life_support(dt) with dt < 0 raise an
\* InvalidArgument-class error and leave the spacecraft unchanged.
NegativeDtRejected ==
    (/\ last.op \in {"consume_fuel", "update_life_support"}
     /\ RLt(last.arg, R0))
    => /\ last.raised = "InvalidArgument"
       /\ sc = last.pre

\* C10: get_current_mass() is dry_mass + current_fuel*0.75 in every state,
\* so after a consume_fuel call returning c from fuel level f it is
\* dry_mass + (f - c)*0.75; no operation changes dry_mass.
MassFollowsFuel ==
    /\ last.op = "get_current_mass" =>
           last.ret = RAdd(sc.dry_mass, RMul(sc.current_fuel, R(3, 4)))
    /\ Consumed =>
           get_current_mass(sc) =
               RAdd(sc.dry_mass,
                    RMul(RSub(last.pre.current_fuel, last.ret), R(3, 4)))
    /\ sc.dry_mass = last.pre.dry_mass

\* A mass query made after part of the fuel has been burnt.
MassAfterBurn ==
    /\ last.op = "get_current_mass"
    /\ "consume_fuel" \in called
    /\ RLt(R0, sc.current_fuel)
    /\ sc.current_fuel.d # 1
    /\ last.ret # sc.mass

\* C11: get_fuel_percent() returns exactly 0 when max_fuel_capacity is 0,
\* without a division fault, and current_fuel/max_fuel_capacity*100
\* otherwise (50 for 500 of 1000), and changes no state.
FuelPercentTotal ==
    last.op = "get_fuel_percent" =>
        /\ last.raised = "none"
        /\ sc = last.pre
        /\ sc.max_fuel_capacity = RInt(0) => last.ret = RInt(0)
        /\ sc.max_fuel_capacity # RInt(0) =>
               RMul(last.ret, sc.max_fuel_capacity)
                   = RMul(sc.current_fuel, RInt(100))
        /\ (sc.current_fuel = RInt(500) /\ sc.max_fuel_capacity = RInt(1000))
               => last.ret = RInt(50)

\* The fuel percentage asked of a spacecraft without a tank.
FuelPercentOfNoTank ==
    /\ last.op = "get_fuel_percent"
    /\ sc.max_fuel_capacity = RInt(0)
    /\ last.ret = RInt(0)

Pow10(k) == IF k = 0 THEN 1 ELSE IF k = 1 THEN 10 ELSE IF k = 2 THEN 100
            ELSE 1000

\* a + b for two floats beyond the integer range with the same power of
\* the digits of G and powers of ten at most three apart.
SciAdd(a, b) ==
    IF a.m.n = 0 THEN b
    ELSE IF b.m.n = 0 THEN a
    ELSE LET e == IF a.e < b.e THEN a.e ELSE b.e
         IN  Sci(RAdd(RMul(a.m, RInt(Pow10(a.e - e))),
                      RMul(b.m, RInt(Pow10(b.e - e)))), e, a.g)

\* The dot product of a force f and a displacement d.
Dot(f, d) ==
    SciAdd(SciAdd(SciMul(f[1], FromR(d[1])), SciMul(f[2], FromR(d[2]))),
           SciMul(f[3], FromR(d[3])))

\* x^2 + y^2 + z^2.
SquaredLength(d) ==
    RAdd(RAdd(RMul(d[1], d[1]), RMul(d[2], d[2])), RMul(d[3], d[3]))

GravityAsked == last.op = "calculate_gravity"

\* From the spacecraft to the body of the gravity query just made.
TowardBody == sub(last.arg.position, last.pre.position)

\* C12: calculate_gravity returns the zero vector when spacecraft and body
\* share a position, and otherwise a force whose dot product with
\* (body.position - spacecraft.position) is positive.
GravityPointsToBody ==
    GravityAsked =>
        IF last.arg.position = last.pre.position
        THEN last.ret.force = <<FromR(RInt(0)), FromR(RInt(0)), FromR(RInt(0))>>
        ELSE Dot(last.ret.force, TowardBody).m.n > 0

\* A pull along a diagonal: neither the x nor the y part of it is zero.
GravityAlongDiagonal ==
    /\ GravityAsked
    /\ TowardBody[1] # RInt(0)
    /\ TowardBody[2] # RInt(0)
    /\ last.ret.force[1] # FromR(RInt(0))
    /\ last.ret.force[2] # FromR(RInt(0))

\* C13: at non-zero separation r, calculate_gravity returns -normalize(r)
\* scaled by G*body.mass*m/|r|^2 with m = dry_mass + current_fuel*0.75 at
\* the time of the call, the mass reduced by a consume_fuel before it.
GravityUsesCurrentMass ==
    (GravityAsked /\ last.arg.position # last.pre.position) =>
        LET r     == sub(sc.position, last.arg.position)
            len   == sqrt(SquaredLength(r))
            m     == RAdd(sc.dry_mass, RMul(sc.current_fuel, R(3, 4)))
            scale_by ==
                SciDiv(SciMul(SciMul(Sci(RInt(1), -11, 1), last.arg.mass),
                              FromR(m)),
                       FromR(SquaredLength(r)))
        IN  \A i \in 1..3 :
                last.ret.force[i]
                    = SciMul(FromR(RNeg(RDiv(r[i], len))), scale_by)

\* A gravity query after fuel has been burnt.
GravityAfterBurn ==
    /\ GravityAsked
    /\ last.arg.position # last.pre.position
    /\ "consume_fuel" \in called
    /\ RLt(sc.current_fuel, RInt(500))
    /\ RLt(R0, sc.current_fuel)
    /\ get_current_mass(sc) # sc.mass

AccelerationAsked == last.op = "calculate_acceleration"

\* C14: calculate_acceleration(force, mass) returns the zero vector when
\* mass is 0, without a division fault, and force scaled by 1/mass for
\* every other mass.
AccelerationTotal ==
    AccelerationAsked =>
        /\ last.raised = "none"
        /\ IF last.arg.mass = RInt(0)
           THEN last.ret = <<FromR(RInt(0)), FromR(RInt(0)), FromR(RInt(0))>>
           ELSE \A i \in 1..3 :
                    SciMul(last.ret[i], FromR(last.arg.mass))
                        = last.arg.force[i]

\* A force that is not zero on a mass of zero.
AccelerationOfNoMass ==
    /\ AccelerationAsked
    /\ last.arg.mass = RInt(0)
    /\ last.arg.force # SciZero3
    /\ last.ret = SciZero3

\* C15: calculate_gravity and calculate_acceleration leave the engine's
\* gravitational constant, every field of the spacecraft and the body
\* unchanged, and return what a fresh engine returns for the same inputs.
EngineStateless ==
    /\ engine.gravitational_constant = Sci(RInt(1), -11, 1)
    /\ (GravityAsked \/ AccelerationAsked) =>
           /\ engine = last.pre_engine
           /\ sc = last.pre
    /\ GravityAsked =>
           /\ last.ret.body = last.arg
           /\ last.ret.force
                  = calculate_gravity(PhysicsEngine, last.pre, last.arg).ret
    /\ AccelerationAsked =>
           last.ret = calculate_acceleration(PhysicsEngine, last.arg.force,
                                             last.arg.mass).ret

\* The caller has turned a pull into an acceleration, and the spacecraft
\* is as it was: nothing was integrated.
AccelerationNotStored ==
    /\ AccelerationAsked
    /\ last.arg.force # SciZero3
    /\ last.arg.mass = get_current_mass(sc)
    /\ last.ret # SciZero3
    /\ sc.acceleration = Zero3
    /\ sc.velocity = Zero3
    /\ "consume_fuel" \in called

Registry == system.bodies

NearestAsked == last.op = "get_nearest_body"

\* The squared distance from the query point to a body.
SquaredDistance(body) == SquaredLength(sub(last.arg, body.position))

\* C16: without a write to the registry other than add_body, the registry
\* holds a body under the id 'sun' after initialization and after every
\* add_body, get_body and get_nearest_body call.
SunAlwaysPresent ==
    "clear_bodies" \notin called =>
        /\ \E i \in 1..Len(Registry) : Registry[i].key = "sun"
        /\ (last.op = "get_body" /\ last.arg = "sun") => last.ret # None

\* A lookup of the star after another body was added under its id.
SunLookedUpAfterReadd ==
    /\ last.op = "get_body"
    /\ last.arg = "sun"
    /\ "clear_bodies" \notin called
    /\ "sun" \in hist.readded
    /\ last.ret = Sun2

\* C17: get_nearest_body(point) returns None iff the registry is empty, and
\* otherwise a registered body than which no registered body is strictly
\* closer to the point.
NearestIsNearest ==
    NearestAsked =>
        /\ (last.ret = None) <=> (Len(Registry) = 0)
        /\ Len(Registry) > 0 =>
               /\ \E i \in 1..Len(Registry) : Registry[i].value = last.ret
               /\ \A j \in 1..Len(Registry) :
                      ~RLt(SquaredDistance(Registry[j].value),
                           SquaredDistance(last.ret))

\* The nearest body is neither the first of the registry nor at the point.
NearestIsALaterBody ==
    /\ NearestAsked
    /\ Len(Registry) >= 3
    /\ last.ret # None
    /\ last.ret # Registry[1].value
    /\ last.ret # Registry[2].value
    /\ SquaredDistance(last.ret) # RInt(0)

\* Where an id stands in the order of first insertion.
FirstInserted(id) == CHOOSE i \in 1..Len(hist.order) : hist.order[i] = id

\* The registered bodies as near to the query point as the one returned.
Tied ==
    { j \in 1..Len(Registry) :
          SquaredDistance(Registry[j].value) = SquaredDistance(last.ret) }

\* C18: of several registered bodies at the same least distance,
\* get_nearest_body returns the one whose id was first inserted the
\* earliest, also when that id has been added again since.
TieGoesToFirstInserted ==
    (NearestAsked /\ last.ret # None) =>
        \A j \in Tied :
            FirstInserted(last.ret.id) <= FirstInserted(Registry[j].key)

\* A tie won by an id that was added again after its rival was inserted.
TieWonAfterReadd ==
    /\ NearestAsked
    /\ last.ret = Earth2
    /\ last.ret.id \in hist.readded
    /\ \E j \in Tied : Registry[j].value = Mars
    /\ FirstInserted("earth") < FirstInserted("mars")

\* C19: the registry holds at most one body per id; get_body(id) returns
\* the body last added under the id and None for an id never added; adding
\* under an id again does not grow the registry; lookups leave it alone.
RegistryKeepsLatest ==
    /\ \A i, j \in 1..Len(Registry) :
           Registry[i].key = Registry[j].key => i = j
    /\ Len(Registry) = Cardinality(DOMAIN hist.latest)
    /\ last.op = "get_body" =>
           /\ last.ret = IF last.arg \in DOMAIN hist.latest
                         THEN hist.latest[last.arg] ELSE None
           /\ system = last.pre_system
    /\ NearestAsked => system = last.pre_system

\* A lookup that returns the second of two bodies added under one id.
LookupReturnsReplacement ==
    /\ last.op = "get_body"
    /\ last.arg = "earth"
    /\ "earth" \in hist.readded
    /\ last.ret = Earth2
    /\ Len(Registry) = 2

\* C20: is_in_atmosphere(point) is False whenever has_atmosphere is false,
\* and otherwise True exactly when the point is no further from the body's
\* position than radius + atmosphere_depth.
AtmosphereTest ==
    last.op = "is_in_atmosphere" =>
        LET body  == last.arg.body
            reach == RAdd(body.radius, body.atmosphere_depth)
            dd    == SquaredLength(sub(last.arg.position, body.position))
        IN  last.ret = (body.has_atmosphere /\ RLe(dd, RMul(reach, reach)))

\* A point exactly on the edge of an atmosphere.
AtmosphereEdge ==
    /\ last.op = "is_in_atmosphere"
    /\ last.arg.body.has_atmosphere
    /\ SquaredLength(sub(last.arg.position, last.arg.body.position))
           = RMul(RAdd(last.arg.body.radius, last.arg.body.atmosphere_depth),
                  RAdd(last.arg.body.radius, last.arg.body.atmosphere_depth))
    /\ last.ret = TRUE

\* C21: get_surface_gravity() returns exactly 0 for a body of radius 0,
\* without a division fault, and G*mass/radius^2 for every other radius.
SurfaceGravityTotal ==
    last.op = "get_surface_gravity" =>
        /\ last.raised = "none"
        /\ IF last.arg.radius = RInt(0)
           THEN last.ret = FromR(RInt(0))
           ELSE SciMul(last.ret,
                       SciMul(FromR(last.arg.radius), FromR(last.arg.radius)))
                    = SciMul(Sci(RInt(1), -11, 1), last.arg.mass)

\* The surface gravity asked of a body without extent.
SurfaceGravityOfAPoint ==
    /\ last.op = "get_surface_gravity"
    /\ last.arg.radius = RInt(0)
    /\ last.arg.mass # FromR(RInt(0))
    /\ last.ret = FromR(RInt(0))

\* C22: Vector3D.normalize() returns exactly the zero vector for the zero
\* vector and, for every other vector, a vector of magnitude 1 pointing
\* the same way.
NormalizeGivesUnit ==
    last.op = "normalize" =>
        LET v == last.arg
            u == last.ret
            along == RAdd(RAdd(RMul(u[1], v[1]), RMul(u[2], v[2])),
                          RMul(u[3], v[3]))
        IN  IF v = <<RInt(0), RInt(0), RInt(0)>>
            THEN u = <<RInt(0), RInt(0), RInt(0)>>
            ELSE /\ SquaredLength(u) = RInt(1)
                 /\ RLt(RInt(0), along)
                 /\ RMul(along, along) = SquaredLength(v)

\* A vector off the axes brought to length 1.
NormalizedOffAxis ==
    /\ last.op = "normalize"
    /\ last.arg = <<RInt(2), RInt(-1), RInt(2)>>
    /\ last.ret = <<R(2, 3), R(-1, 3), R(2, 3)>>

\* C23: Quaternion.normalize() returns the identity quaternion for a
\* quaternion of norm 0 and a quaternion of norm 1 for every other one.
QuaternionNormalizeGivesUnit ==
    last.op = "quaternion_normalize" =>
        LET n2(q) == RAdd(RAdd(RMul(q.w, q.w), RMul(q.x, q.x)),
                          RAdd(RMul(q.y, q.y), RMul(q.z, q.z)))
        IN  IF n2(last.arg) = RInt(0)
            THEN last.ret = [w |-> RInt(1), x |-> RInt(0), y |-> RInt(0),
                             z |-> RInt(0)]
            ELSE n2(last.ret) = RInt(1)

\* The zero quaternion has been normalized.
ZeroQuaternionNormalized ==
    /\ last.op = "quaternion_normalize"
    /\ last.arg.w = RInt(0) /\ last.arg.x = RInt(0)
    /\ last.arg.y = RInt(0) /\ last.arg.z = RInt(0)
    /\ last.ret.w = RInt(1)

\* A pitch strictly between -pi/2 and pi/2: half of it lies strictly
\* between -pi/4 and pi/4.
PitchInside(a) == RLt(a.s, a.c) /\ RLt(RNeg(a.s), a.c)

\* C24: for all Euler angles (p, y, r) with pitch strictly inside
\* (-pi/2, pi/2), from_euler(p, y, r).to_euler() returns (p, y, r).
EulerRoundTrip ==
    (last.op = "to_euler" /\ PitchInside(hist.euler[1])) =>
        /\ last.raised = "none"
        /\ last.ret = hist.euler

\* An angle in (-pi, pi]: half of it lies in (-pi/2, pi/2].
Wrapped(a) == RLt(RInt(0), a.c) \/ (a.c = RInt(0) /\ a.s = RInt(1))

\* Yaw and roll beyond (-pi, pi] come back less a whole turn.
EulerWithinTurn ==
    (/\ last.op = "to_euler"
     /\ PitchInside(hist.euler[1])
     /\ Wrapped(hist.euler[2])
     /\ Wrapped(hist.euler[3])) =>
        /\ last.raised = "none"
        /\ last.ret = hist.euler

\* Forward along nominal -> warning -> critical.
Rank(status) ==
    IF status = "nominal" THEN 0 ELSE IF status = "warning" THEN 1 ELSE 2

\* C25: no step other than an update_life_support call with dt < 0 moves
\* life_support_status back along nominal -> warning -> critical or raises
\* oxygen_level; so with every dt >= 0 'warning' is never followed by
\* 'nominal' and 'critical' stays.
LifeSupportOnlyWorsens ==
    [][ (last'.op = "update_life_support" => RLe(RInt(0), last'.arg)) =>
            /\ Rank(sc'.life_support_status) >= Rank(sc.life_support_status)
            /\ RLe(sc'.oxygen_level, sc.oxygen_level) ]_vars

\* An update with time passing on a spacecraft already critical.
CriticalStays ==
    /\ last.op = "update_life_support"
    /\ RLt(RInt(0), last.arg)
    /\ last.pre.life_support_status = "critical"
    /\ RLt(RInt(0), last.pre.oxygen_level)
    /\ sc.life_support_status = "critical"
    /\ RLt(sc.oxygen_level, last.pre.oxygen_level)

\* C26: with the throttle held above 0 and a fixed dt > 0, repeated
\* consume_fuel calls bring current_fuel to exactly 0; from then on every
\* call returns 0 and leaves it at 0; current_fuel never increases.
FuelRunsOut ==
    /\ <>(sc.current_fuel = RInt(0))
    /\ [][ /\ RLe(sc'.current_fuel, sc.current_fuel)
           /\ sc.current_fuel = RInt(0) =>
                  /\ sc'.current_fuel = RInt(0)
                  /\ last'.ret = RInt(0) ]_vars

\* A call on the empty tank, the throttle still open.
BurnOnEmptyTank ==
    /\ last.op = "consume_fuel"
    /\ RLt(RInt(0), last.arg)
    /\ RLt(RInt(0), sc.thrust_level)
    /\ last.pre.current_fuel = RInt(0)
    /\ last.ret = RInt(0)
    /\ sc.current_fuel = RInt(0)

\* C27: consume_fuel changes nothing but current_fuel, update_life_support
\* nothing but oxygen_level and life_support_status, set_throttle nothing
\* but throttle and thrust_level.
MutatorsKeepToTheirSlice ==
    /\ last.op = "consume_fuel" =>
           sc = [last.pre EXCEPT !.current_fuel = sc.current_fuel]
    /\ last.op = "update_life_support" =>
           sc = [last.pre EXCEPT
                    !.oxygen_level = sc.oxygen_level,
                    !.life_support_status = sc.life_support_status]
    /\ last.op = "set_throttle" =>
           sc = [last.pre EXCEPT !.throttle = sc.throttle,
                                 !.thrust_level = sc.thrust_level]

\* A burn under boost that took fuel and left the stored mass alone.
BurnLeavesMassField ==
    /\ last.op = "consume_fuel"
    /\ sc.boost_active
    /\ RLt(sc.current_fuel, last.pre.current_fuel)
    /\ sc.mass = last.pre.mass
    /\ sc.mass # RAdd(sc.dry_mass, RMul(sc.current_fuel, R(3, 4)))

\* C28: after any sequence of add_body calls, including one whose body has
\* the id 'sun', SolarSystem.sun is the body get_body('sun') returns.
SunReferenceIsRegistryEntry ==
    "clear_bodies" \notin called =>
        \E i \in 1..Len(system.bodies) :
            /\ system.bodies[i].key = "sun"
            /\ system.bodies[i].value = system.sun

\* The objectives of the mission whose completed flag is set.
Flagged(m) == {i \in 1..Len(m.objectives) : m.objectives[i].completed}

Stored(d) == {d[i].value : i \in 1..Len(d)}

\* No two of the records share a username or a trimmed, lower-cased email.
NoneShared(records) ==
    \A a \in records, b \in records :
        a # b => /\ a.username # b.username
                 /\ lower(strip(a.email)) # lower(strip(b.email))

\* The username or the email of the request is held by a stored user or
\* auth profile.
Taken(r, form) ==
    \E held \in Stored(r.users) \cup Stored(r.profiles_by_id) :
        \/ held.username = strip(form.username)
        \/ lower(strip(held.email)) = lower(strip(form.email))

\* The request fails validation: a blank username or display name, or a
\* password under eight characters, of one case, or with no digit.
Invalid(form) ==
    \/ strip(form.username) = <<>>
    \/ strip(form.display_name) = <<>>
    \/ Len(form.password) < 8
    \/ ~(\E i \in 1..Len(form.password) :
             Letter(ascii_uppercase, form.password[i]))
    \/ ~(\E i \in 1..Len(form.password) :
             Letter(ascii_lowercase, form.password[i]))
    \/ ~(\E i \in 1..Len(form.password) : form.password[i] \in digits)

\* C29: after any sequence of register_user calls no two stored users and
\* no two auth profiles share a username or a normalized email; a
\* registration whose username or email is taken, or whose input fails
\* validation, raises an error and stores neither a user nor an auth
\* profile.
RegistrationKeepsUnique ==
    /\ NoneShared(Stored(repos.users))
    /\ NoneShared(Stored(repos.profiles_by_id))
    /\ last.op = "register_user" =>
           /\ (Taken(last.pre_repos, last.arg) \/ Invalid(last.arg))
                  => last.raised # "none"
           /\ last.raised # "none" => repos = last.pre_repos

\* A request refused for an email that matches a stored one only after
\* trimming and lower-casing.
EmailTakenAfterNormalizing ==
    /\ last.op = "register_user"
    /\ last.raised = "RegistrationError"
    /\ ~Invalid(last.arg)
    /\ \E held \in Stored(last.pre_repos.profiles_by_id) :
           /\ held.email = lower(strip(last.arg.email))
           /\ held.email # last.arg.email
           /\ held.username # strip(last.arg.username)
    /\ repos = last.pre_repos

====
